---- MODULE Spec2Model ----
(***************************************************************************)
(* Function registration of the runtime (package functions).               *)
(*                                                                         *)
(* MonitorRegistration starts a goroutine that receives from               *)
(* host.RegistrationRequest and calls registerFunctions, which reconciles  *)
(* FunctionsMap (resolver -> FunctionInfo) with host.Plugins and the       *)
(* function schemas of gqlSchema, and then signals RegistrationCompleted.  *)
(*                                                                         *)
(* The host (plugin loader, schema source), the consumer of the completion *)
(* signal and the dispatch layer's lookup are outside src/functions; they  *)
(* are modelled as the environment.  The host changes Plugins and          *)
(* gqlSchema only while no goroutine is inside registerFunctions: the pass *)
(* ranges over host.Plugins without a lock, so the claims about a pass are *)
(* stated for passes that run on a plugin set that stands still.           *)
(***************************************************************************)
EXTENDS Naturals, Sequences, FiniteSets

----------------------------------------------------------------------------
(* Bounds of the model *)

\* capacity of host.RegistrationRequest (the buffered trigger channel)
TriggerCap == 1

\* how many times MonitorRegistration may be called
MaxMonitors == 2

\* capacity of RegistrationCompleted: make(chan bool, 1)
CompletedCap == 1

----------------------------------------------------------------------------
(* Names.  A name is a sequence of characters, so that case matters. *)

SayHello == <<"S", "H">>
sayHello == <<"s", "H">>
sayhello == <<"s", "h">>
add      == <<"a", "d">>

\* unicode.ToLower on the characters the names use
ToLower(c) ==
    CASE c = "S" -> "s"
      [] c = "H" -> "h"
      [] c = "A" -> "a"
      [] c = "D" -> "d"
      [] OTHER   -> c

EqualFoldExact(a, b) == a = b

\* strings.EqualFold: equality under case folding
EqualFold(a, b) ==
    /\ Len(a) = Len(b)
    /\ \A i \in 1..Len(a) : ToLower(a[i]) = ToLower(b[i])

----------------------------------------------------------------------------
(* Function schemas (schema.FunctionSchema) and GraphQL schemas *)

fSay   == [FunctionName |-> sayHello, Resolver |-> "sayHello"]
fHello == [FunctionName |-> sayHello, Resolver |-> "hello"]
fAdd   == [FunctionName |-> add,      Resolver |-> "add"]

Doc(fns)  == [valid |-> TRUE, fns |-> fns]
BadSchema == [valid |-> FALSE, fns |-> <<>>]

\* the GraphQL schemas the host may install
Schemas ==
    { BadSchema, Doc(<<>>), Doc(<<fSay>>), Doc(<<fHello>>), Doc(<<fAdd>>),
      Doc(<<fSay, fAdd>>) }

GetFunctionSchemaIgnoreErr(doc) == [err |-> FALSE, funcSchemas |-> doc.fns]

\* schema.GetFunctionSchema(gqlSchema): the function schemas, or an error
GetFunctionSchema(doc) ==
    IF doc.valid THEN [err |-> FALSE, funcSchemas |-> doc.fns]
                 ELSE [err |-> TRUE,  funcSchemas |-> <<>>]

----------------------------------------------------------------------------
(* Plugins.  A module is the set of its exported functions; an exported    *)
(* function is the sequence of its export names (fn.ExportNames()).        *)

PluginNames == {"P", "Q"}

Modules ==
    { {},
      {<<SayHello>>},
      {<<sayhello>>},
      {<<sayHello>>, <<add>>},
      {<<add, sayHello>>} }

\* fnName := fn.ExportNames()[0]
ExportName(fn) == fn[1]

Workers == 1..MaxMonitors

VARIABLES
    Plugins,                \* host.Plugins: plugin name -> module
    loadOrder,              \* the loaded plugins, in the order the host loaded them
    gqlSchema,              \* the GraphQL schema passed to registerFunctions
    RegistrationRequest,    \* triggers buffered in host.RegistrationRequest
    RegistrationCompleted,  \* signals buffered in RegistrationCompleted
    FunctionsMap,           \* resolver -> [PluginName, Schema]
    ctxDone,                \* ctx has been canceled
    monitorCalls,           \* calls of MonitorRegistration so far
    started,                \* the goroutines MonitorRegistration has started
    pc,                     \* where each goroutine is
    funcSchemas,            \* registerFunctions' local funcSchemas
    todo,                   \* plugins the range over host.Plugins has yet to yield
    before,                 \* FunctionsMap when the pass in flight was called
    ops,                    \* map writes and deletes of the pass in flight
    delta,                  \* host changes since the last pass that returned nil
    lookup,                 \* the dispatch layer's last lookup
    typeDefs,               \* schemagen: the type definitions collected so far
    converted,              \* schemagen: the conversions made into typeDefs
    FnExports,              \* schemagen: the metadata's function exports
    embedders,              \* schemagen: embedders named by the manifest
    result,                 \* schemagen: the last generated schema
    previous                \* schemagen: the schema generated before it

vars ==
    << Plugins, loadOrder, gqlSchema, RegistrationRequest, RegistrationCompleted,
       FunctionsMap, ctxDone, monitorCalls, started, pc, funcSchemas, todo,
       before, ops, delta, lookup, typeDefs, converted, FnExports, embedders,
       result, previous >>

genVars == << typeDefs, converted, FnExports, embedders, result, previous >>

hostVars   == << Plugins, loadOrder, gqlSchema >>
workerVars == << pc, funcSchemas, todo, before, ops >>

----------------------------------------------------------------------------
(* Maps *)

\* what the host changed since the last pass that returned nil
NoChange    == [kind |-> "none",   plugin |-> ""]
Changed     == [kind |-> "other",  plugin |-> ""]
Unloaded(p) == [kind |-> "unload", plugin |-> p]

\* no schema generated yet
NoResult ==
    [generated |-> FALSE, Query |-> <<>>, scalars |-> <<>>, inputs |-> <<>>,
     types |-> <<>>, errors |-> {}]

\* no lookup yet
NoLookup == [resolver |-> "", found |-> FALSE, plugin |-> "", partial |-> FALSE]

EmptyMap == [x \in {} |-> x]

Put(map, key, val) ==
    [x \in DOMAIN map \cup {key} |-> IF x = key THEN val ELSE map[x]]

Restrict(map, keys) == [x \in keys |-> map[x]]

RemoveName(seq, name) == SelectSeq(seq, LAMBDA x : x # name)

----------------------------------------------------------------------------
(* registerFunctions: the upsert loop *)

\* the loop over module.ExportedFunctions() finds a match for scma
Exports(module, scma) ==
    \E fn \in module : EqualFold(ExportName(fn), scma.FunctionName)

NeverSkips(map, resolver, info) == FALSE

\* existed && reflect.DeepEqual(oldInfo, info)
Skips(map, resolver, info) ==
    resolver \in DOMAIN map /\ map[resolver] = info

\* lines 56-62: write info unless an equal entry is already there
Upsert(map, resolver, info) ==
    IF Skips(map, resolver, info)
    THEN map
    ELSE Put(map, resolver, info)

\* one iteration of the loop over host.Plugins: every schema, in order
RECURSIVE UpsertPlugin(_, _, _, _)
UpsertPlugin(map, pluginName, module, schemas) ==
    IF schemas = <<>> THEN map
    ELSE LET scma == Head(schemas)
             info == [PluginName |-> pluginName, Schema |-> scma]
             next == IF Exports(module, scma)
                     THEN Upsert(map, scma.Resolver, info)
                     ELSE map
         IN  UpsertPlugin(next, pluginName, module, Tail(schemas))

\* how often that iteration executes FunctionsMap[resolver] = info
RECURSIVE CountWrites(_, _, _, _)
CountWrites(map, pluginName, module, schemas) ==
    IF schemas = <<>> THEN 0
    ELSE LET scma == Head(schemas)
             info == [PluginName |-> pluginName, Schema |-> scma]
             hit  == Exports(module, scma)
             next == IF hit THEN Upsert(map, scma.Resolver, info) ELSE map
         IN  (IF hit /\ ~Skips(map, scma.Resolver, info) THEN 1 ELSE 0)
                 + CountWrites(next, pluginName, module, Tail(schemas))

----------------------------------------------------------------------------
(* registerFunctions: the cleanup loop *)

FoundSchema(info, schemas) ==
    \E i \in 1..Len(schemas) :
        EqualFold(info.Schema.FunctionName, schemas[i].FunctionName)

FoundPlugin(info, plugins) == info.PluginName \in DOMAIN plugins

KeepPluginOnly(info, schemas, plugins) == FoundPlugin(info, plugins)

KeepFirstSchemaOnly(info, schemas, plugins) ==
    /\ schemas # <<>>
    /\ EqualFold(info.Schema.FunctionName, schemas[1].FunctionName)
    /\ FoundPlugin(info, plugins)

\* the entry stays: not (!foundSchema || !foundPlugin)
Keep(info, schemas, plugins) ==
    FoundSchema(info, schemas) /\ FoundPlugin(info, plugins)

Sweep(map, schemas, plugins) ==
    Restrict(map, {r \in DOMAIN map : Keep(map[r], schemas, plugins)})

\* how often the cleanup loop executes delete(FunctionsMap, resolver)
CountDeletes(map, schemas, plugins) ==
    Cardinality(DOMAIN map \ DOMAIN Sweep(map, schemas, plugins))

NoOps == [writes |-> 0, deletes |-> 0]

----------------------------------------------------------------------------
(* The completion signal and the error return *)

AlwaysSend(n) == n + 1

NeverSend(n) == n

\* select { case RegistrationCompleted <- true: default: }
NonBlockingSend(n) == IF n < CompletedCap THEN n + 1 ELSE n

ClearOnError(map) == EmptyMap

\* if err != nil { return err }: the map is left as it is
ErrReturn(map) == map

----------------------------------------------------------------------------
Init ==
    /\ Plugins = EmptyMap
    /\ loadOrder = <<>>
    /\ gqlSchema = Doc(<<>>)
    /\ RegistrationRequest = 0
    /\ RegistrationCompleted = 0
    /\ FunctionsMap = EmptyMap
    /\ ctxDone = FALSE
    /\ monitorCalls = 0
    /\ started = {}
    /\ pc = [w \in Workers |-> "select"]
    /\ funcSchemas = [w \in Workers |-> <<>>]
    /\ todo = [w \in Workers |-> {}]
    /\ before = [w \in Workers |-> EmptyMap]
    /\ ops = [w \in Workers |-> NoOps]
    /\ delta = NoChange
    /\ lookup = NoLookup
    /\ typeDefs = <<>>
    /\ converted = <<>>
    /\ FnExports = <<>>
    /\ embedders = {}
    /\ result = NoResult
    /\ previous = NoResult

----------------------------------------------------------------------------
(* The environment: the host, the trigger producers, the signal consumer *)

\* no goroutine is inside registerFunctions
Quiescent == \A w \in Workers : pc[w] \in {"select", "exited"}

\* the host loads plugin p (or replaces it by another build of it)
LoadPlugin(p, module) ==
    /\ Quiescent
    /\ Plugins' = Put(Plugins, p, module)
    /\ loadOrder' = Append(RemoveName(loadOrder, p), p)
    /\ delta' = Changed
    /\ UNCHANGED << gqlSchema, RegistrationRequest, RegistrationCompleted,
                    FunctionsMap, ctxDone, monitorCalls, started, workerVars,
                    lookup,
                    genVars >>

\* the host unloads plugin p
UnloadPlugin(p) ==
    /\ Quiescent
    /\ p \in DOMAIN Plugins
    /\ Plugins' = Restrict(Plugins, DOMAIN Plugins \ {p})
    /\ loadOrder' = RemoveName(loadOrder, p)
    /\ delta' = IF delta = NoChange THEN Unloaded(p) ELSE Changed
    /\ UNCHANGED << gqlSchema, RegistrationRequest, RegistrationCompleted,
                    FunctionsMap, ctxDone, monitorCalls, started, workerVars,
                    lookup,
                    genVars >>

\* the GraphQL schema changes
SetSchema(doc) ==
    /\ Quiescent
    /\ doc # gqlSchema
    /\ gqlSchema' = doc
    /\ delta' = Changed
    /\ UNCHANGED << Plugins, loadOrder, RegistrationRequest,
                    RegistrationCompleted, FunctionsMap, ctxDone, monitorCalls,
                    started, workerVars, lookup,
                    genVars >>

\* host.RegistrationRequest <- true
Trigger ==
    /\ RegistrationRequest < TriggerCap
    /\ RegistrationRequest' = RegistrationRequest + 1
    /\ UNCHANGED << hostVars, RegistrationCompleted, FunctionsMap, ctxDone,
                    monitorCalls, started, workerVars, delta, lookup,
                    genVars >>

\* <-functions.RegistrationCompleted
Consume ==
    /\ RegistrationCompleted > 0
    /\ RegistrationCompleted' = RegistrationCompleted - 1
    /\ UNCHANGED << hostVars, RegistrationRequest, FunctionsMap, ctxDone,
                    monitorCalls, started, workerVars, delta, lookup,
                    genVars >>

\* the governing context is canceled
Cancel ==
    /\ ~ctxDone
    /\ ctxDone' = TRUE
    /\ UNCHANGED << hostVars, RegistrationRequest, RegistrationCompleted,
                    FunctionsMap, monitorCalls, started, workerVars, delta,
                    lookup,
                    genVars >>

----------------------------------------------------------------------------
(* MonitorRegistration and its goroutine *)

FirstFree(set) == CHOOSE w \in set : \A v \in set : w <= v

SpawnTwo(free) ==
    IF Cardinality(free) > 1
    THEN {FirstFree(free), FirstFree(free \ {FirstFree(free)})}
    ELSE free

\* go func() { ... }(): one goroutine per call
Spawn(free) == {FirstFree(free)}

MonitorRegistration ==
    /\ monitorCalls < MaxMonitors
    /\ Workers \ started # {}
    /\ monitorCalls' = monitorCalls + 1
    /\ started' = started \cup Spawn(Workers \ started)
    /\ UNCHANGED << hostVars, RegistrationRequest, RegistrationCompleted,
                    FunctionsMap, ctxDone, workerVars, delta, lookup,
                    genVars >>

\* case <-host.RegistrationRequest, and registerFunctions down to the
\* return on a schema error or to the head of the loop over host.Plugins
Receive(w) ==
    /\ w \in started
    /\ pc[w] = "select"
    /\ RegistrationRequest > 0
    /\ RegistrationRequest' = RegistrationRequest - 1
    /\ LET got == GetFunctionSchema(gqlSchema) IN
         IF got.err
         THEN /\ pc' = [pc EXCEPT ![w] = "failed"]
              /\ FunctionsMap' = ErrReturn(FunctionsMap)
              /\ before' = [before EXCEPT ![w] = FunctionsMap]
              /\ UNCHANGED << funcSchemas, todo >>
         ELSE /\ pc' = [pc EXCEPT ![w] =
                          IF DOMAIN Plugins = {} THEN "sweep" ELSE "upsert"]
              /\ funcSchemas' = [funcSchemas EXCEPT ![w] = got.funcSchemas]
              /\ todo' = [todo EXCEPT ![w] = DOMAIN Plugins]
              /\ before' = [before EXCEPT ![w] = FunctionsMap]
              /\ UNCHANGED FunctionsMap
    /\ ops' = [ops EXCEPT ![w] = NoOps]
    /\ UNCHANGED << hostVars, RegistrationCompleted, ctxDone, monitorCalls,
                    started, delta, lookup,
                    genVars >>

\* logger.Err(ctx, err).Msg("Failed to register functions."), back to select
LogFailure(w) ==
    /\ pc[w] = "failed"
    /\ pc' = [pc EXCEPT ![w] = "select"]
    /\ before' = [before EXCEPT ![w] = EmptyMap]
    /\ UNCHANGED << hostVars, RegistrationRequest, RegistrationCompleted,
                    FunctionsMap, ctxDone, monitorCalls, started, funcSchemas,
                    todo, ops, delta, lookup,
                    genVars >>

\* one iteration of "for pluginName, plugin := range host.Plugins": the
\* range over a Go map yields the plugins in an unspecified order
UpsertStep(w, p) ==
    /\ pc[w] = "upsert"
    /\ p \in todo[w]
    /\ FunctionsMap' = UpsertPlugin(FunctionsMap, p, Plugins[p], funcSchemas[w])
    /\ todo' = [todo EXCEPT ![w] = @ \ {p}]
    /\ pc' = [pc EXCEPT ![w] = IF todo[w] = {p} THEN "sweep" ELSE "upsert"]
    /\ ops' = [ops EXCEPT ![w].writes =
                  @ + CountWrites(FunctionsMap, p, Plugins[p], funcSchemas[w])]
    /\ UNCHANGED << hostVars, RegistrationRequest, RegistrationCompleted,
                    ctxDone, monitorCalls, started, funcSchemas, before, delta,
                    lookup,
                    genVars >>

\* the cleanup loop over FunctionsMap
SweepStep(w) ==
    /\ pc[w] = "sweep"
    /\ FunctionsMap' = Sweep(FunctionsMap, funcSchemas[w], Plugins)
    /\ pc' = [pc EXCEPT ![w] = "signal"]
    /\ ops' = [ops EXCEPT ![w].deletes =
                  @ + CountDeletes(FunctionsMap, funcSchemas[w], Plugins)]
    /\ UNCHANGED << hostVars, RegistrationRequest, RegistrationCompleted,
                    ctxDone, monitorCalls, started, funcSchemas, todo, before,
                    delta, lookup,
                    genVars >>

\* the non-blocking send on RegistrationCompleted
Signal(w) ==
    /\ pc[w] = "signal"
    /\ RegistrationCompleted' = NonBlockingSend(RegistrationCompleted)
    /\ pc' = [pc EXCEPT ![w] =
                 IF RegistrationCompleted' # RegistrationCompleted
                 THEN "sent" ELSE "dropped"]
    /\ UNCHANGED << hostVars, RegistrationRequest, FunctionsMap, ctxDone,
                    monitorCalls, started, funcSchemas, todo, before, ops,
                    delta, lookup,
                    genVars >>

\* return nil, back to select
Return(w) ==
    /\ pc[w] \in {"sent", "dropped"}
    /\ pc' = [pc EXCEPT ![w] = "select"]
    /\ funcSchemas' = [funcSchemas EXCEPT ![w] = <<>>]
    /\ before' = [before EXCEPT ![w] = EmptyMap]
    /\ ops' = [ops EXCEPT ![w] = NoOps]
    /\ delta' = NoChange
    /\ UNCHANGED << hostVars, RegistrationRequest, RegistrationCompleted,
                    FunctionsMap, ctxDone, monitorCalls, started, todo, lookup,
                    genVars >>

ExitAnywhere(w) ==
    /\ w \in started
    /\ pc[w] # "exited"
    /\ ctxDone
    /\ pc' = [pc EXCEPT ![w] = "exited"]
    /\ UNCHANGED << hostVars, RegistrationRequest, RegistrationCompleted,
                    FunctionsMap, ctxDone, monitorCalls, started, funcSchemas,
                    todo, before, ops, delta, lookup,
                    genVars >>

\* case <-ctx.Done(): return
Exit(w) ==
    /\ w \in started
    /\ pc[w] = "select"
    /\ ctxDone
    /\ pc' = [pc EXCEPT ![w] = "exited"]
    /\ UNCHANGED << hostVars, RegistrationRequest, RegistrationCompleted,
                    FunctionsMap, ctxDone, monitorCalls, started, funcSchemas,
                    todo, before, ops, delta, lookup,
                    genVars >>

Worker(w) ==
    \/ Receive(w)
    \/ LogFailure(w)
    \/ \E p \in DOMAIN Plugins : UpsertStep(w, p)
    \/ SweepStep(w)
    \/ Signal(w)
    \/ Return(w)

----------------------------------------------------------------------------
(* The dispatch layer *)

Resolvers == {"sayHello", "hello", "add"}

\* a pass has written to the map and entries it will delete are still there
PartiallyUpdated ==
    \E w \in Workers :
        /\ pc[w] \in {"upsert", "sweep"}
        /\ FunctionsMap # before[w]
        /\ \E r \in DOMAIN FunctionsMap :
               ~Keep(FunctionsMap[r], funcSchemas[w], Plugins)

\* info, ok := functions.FunctionsMap[resolver]: the map has no lock, so the
\* read runs wherever the goroutine of MonitorRegistration happens to be
Lookup(r) ==
    /\ lookup' = [resolver |-> r,
                  found    |-> r \in DOMAIN FunctionsMap,
                  plugin   |-> IF r \in DOMAIN FunctionsMap
                               THEN FunctionsMap[r].PluginName ELSE "",
                  partial  |-> PartiallyUpdated]
    /\ lookup' # lookup
    /\ UNCHANGED << hostVars, RegistrationRequest, RegistrationCompleted,
                    FunctionsMap, ctxDone, monitorCalls, started, workerVars,
                    delta, genVars >>

----------------------------------------------------------------------------
(* The program as started: MonitorRegistration is called once *)

Host(names, modules, schemas) ==
    \/ \E p \in names, m \in modules : LoadPlugin(p, m)
    \/ \E p \in names : UnloadPlugin(p)
    \/ \E doc \in schemas : SetSchema(doc)
    \/ Trigger
    \/ Consume

Next ==
    \/ (monitorCalls = 0 /\ MonitorRegistration)
    \/ Host(PluginNames, Modules, Schemas)
    \/ \E w \in Workers : Worker(w)

Spec == Init /\ [][Next]_vars

\* the goroutine is scheduled whenever it can take a step: registerFunctions
\* makes no blocking call
FairSpec == Spec /\ \A w \in Workers : WF_vars(Worker(w))

----------------------------------------------------------------------------
(* Three plugins, each build exporting one function *)

ThreePlugins == {"P", "Q", "R"}
OneFunctionModules == { {<<sayHello>>}, {<<add>>} }
BothFunctions == { Doc(<<fSay, fAdd>>), BadSchema }

NextThree ==
    \/ (monitorCalls = 0 /\ MonitorRegistration)
    \/ Host(ThreePlugins, OneFunctionModules, BothFunctions)
    \/ \E w \in Workers : Worker(w)

SpecThree == Init /\ [][NextThree]_vars

----------------------------------------------------------------------------
(* One plugin, with the dispatch layer reading the map *)

OnePlugin == {"P"}
TwoBuilds == { {<<SayHello>>}, {<<add, sayHello>>} }
TwoSchemas == { Doc(<<fSay>>), Doc(<<fAdd>>), BadSchema }

NextRead ==
    \/ (monitorCalls = 0 /\ MonitorRegistration)
    \/ Host(OnePlugin, TwoBuilds, TwoSchemas)
    \/ \E w \in Workers : Worker(w)
    \/ \E r \in Resolvers : Lookup(r)

SpecRead == Init /\ [][NextRead]_vars

----------------------------------------------------------------------------
(* MonitorRegistration called more than once *)

OneBuild == { {<<SayHello>>} }
GoodAndBad == { Doc(<<fSay>>), BadSchema }

NextMulti ==
    \/ MonitorRegistration
    \/ Host(OnePlugin, OneBuild, GoodAndBad)
    \/ \E w \in Workers : Worker(w)

SpecMulti == Init /\ [][NextMulti]_vars

----------------------------------------------------------------------------
(* The governing context may be canceled *)

NextCancel ==
    \/ (monitorCalls = 0 /\ MonitorRegistration)
    \/ Host(OnePlugin, OneBuild, GoodAndBad)
    \/ Cancel
    \/ \E w \in Workers : Worker(w)
    \/ \E w \in Workers : Exit(w)

\* the goroutine keeps running, and a select whose ctx.Done() case is ready
\* again and again takes it in the end: select chooses among its ready cases
\* at random
SpecCancel ==
    /\ Init /\ [][NextCancel]_vars
    /\ \A w \in Workers : WF_vars(Worker(w)) /\ SF_vars(Exit(w))

----------------------------------------------------------------------------
(* graphql/schemagen: conversion of a Go type to a GraphQL type.  A Go     *)
(* type is the sequence of its tokens: "*", "[]", "map" followed by the    *)
(* key's name and the value type, or a type name.  A GraphQL type is the   *)
(* sequence of its tokens "[", a name, "!", "]".                           *)

MaxWrap == 2
MaxConversions == 2

\* md.Types of the test metadata: the fields of the struct types
TypeCatalog(name) ==
    CASE name = "testdata.Person" ->
           << [Name |-> "name",      Type |-> <<"string">>],
              [Name |-> "age",       Type |-> <<"int32">>],
              [Name |-> "addresses", Type |-> <<"[]", "testdata.Address">>] >>
      [] name = "testdata.Address" ->
           << [Name |-> "street",     Type |-> <<"string">>],
              [Name |-> "city",       Type |-> <<"string">>],
              [Name |-> "state",      Type |-> <<"string">>],
              [Name |-> "country",    Type |-> <<"string">>],
              [Name |-> "postalCode", Type |-> <<"string">>],
              [Name |-> "location",   Type |-> <<"testdata.Coordinates">>] >>
      [] name = "testdata.Coordinates" ->
           << [Name |-> "lat", Type |-> <<"float64">>],
              [Name |-> "lon", Type |-> <<"float64">>] >>
      [] name \in {"testdata.Obj1", "testdata.Obj2"} ->
           << [Name |-> "id",   Type |-> <<"int32">>],
              [Name |-> "name", Type |-> <<"string">>] >>
      [] name \in {"testdata.Obj2Input", "testdata.Obj3", "testdata.Obj4Input"} ->
           << [Name |-> "name", Type |-> <<"string">>] >>
      [] name = "testdata.Header" ->
           << [Name |-> "name",   Type |-> <<"string">>],
              [Name |-> "values", Type |-> <<"[]", "string">>] >>

StructTypes ==
    {"testdata.Person", "testdata.Address", "testdata.Coordinates",
     "testdata.Obj1", "testdata.Obj2", "testdata.Obj2Input", "testdata.Obj3",
     "testdata.Obj4Input", "testdata.Header"}

\* the words of a struct's name, without its package
NameWords(name) ==
    CASE name = "testdata.Person"      -> <<"Person">>
      [] name = "testdata.Address"     -> <<"Address">>
      [] name = "testdata.Coordinates" -> <<"Coordinates">>
      [] name = "testdata.Obj1"        -> <<"Obj1">>
      [] name = "testdata.Obj2"        -> <<"Obj2">>
      [] name = "testdata.Obj2Input"   -> <<"Obj2", "Input">>
      [] name = "testdata.Obj3"        -> <<"Obj3">>
      [] name = "testdata.Obj4Input"   -> <<"Obj4", "Input">>
      [] name = "testdata.Header"      -> <<"Header">>

\* the Go primitives and built-in types and their GraphQL scalars
ScalarTypes ==
    {"string", "bool", "int", "int8", "int16", "int32", "uint8", "uint16",
     "float32", "float64", "time.Time", "int64", "uint32", "uint64"}

ScalarName(name) ==
    CASE name = "string" -> "String"
      [] name = "bool" -> "Boolean"
      [] name \in {"int", "int8", "int16", "int32", "uint8", "uint16"} -> "Int"
      [] name \in {"float32", "float64"} -> "Float"
      [] name = "time.Time" -> "Timestamp"
      [] name = "int64" -> "Int64"
      [] name = "uint32" -> "UInt"
      [] name = "uint64" -> "UInt64"

CustomScalars == {"Timestamp", "Int64", "UInt", "UInt64"}

RECURSIVE Join(_)
Join(words) ==
    IF words = <<>> THEN "" ELSE Head(words) \o Join(Tail(words))

HasInputSuffix(name) == NameWords(name)[Len(NameWords(name))] = "Input"

AlwaysSuffix(name, forInput) ==
    Join(NameWords(name)) \o (IF forInput THEN "Input" ELSE "")

\* the GraphQL name of a struct: in input position its name gets the suffix
\* Input, unless the struct's own name already ends with it
ObjectName(name, forInput) ==
    Join(NameWords(name))
        \o (IF forInput /\ ~HasInputSuffix(name) THEN "Input" ELSE "")

\* the struct whose fields define a type in a position: in input position
\* the catalog's explicit input variant of the struct, if it has one
InputVariant(name, forInput) ==
    LET explicit == { n \in StructTypes :
                        NameWords(n) = NameWords(name) \o <<"Input">> }
    IN  IF forInput /\ explicit # {} THEN CHOOSE n \in explicit : TRUE
        ELSE name

IsPointerType(ts) == Head(ts) = "*"
IsSliceType(ts)   == Head(ts) = "[]"
IsMapType(ts)     == Head(ts) = "map"
MapKey(ts)        == <<ts[2]>>
MapValue(ts)      == SubSeq(ts, 3, Len(ts))

\* a type whose names are all known to the converter
RECURSIVE Supported(_)
Supported(ts) ==
    IF ts = <<>> THEN FALSE
    ELSE IF IsPointerType(ts) \/ IsSliceType(ts) THEN Supported(Tail(ts))
    ELSE IF IsMapType(ts)
         THEN Len(ts) >= 3 /\ ts[2] \in ScalarTypes /\ Supported(MapValue(ts))
    ELSE Len(ts) = 1 /\ ts[1] \in ScalarTypes \cup StructTypes

IsNonNull(ref) == ref[Len(ref)] = "!"
IsList(ref)    == ref[1] = "["

NullableDeep(ref) == SelectSeq(ref, LAMBDA tok : tok # "!")

\* a pointer makes the reference it wraps nullable
Nullable(ref) == IF IsNonNull(ref) THEN SubSeq(ref, 1, Len(ref) - 1) ELSE ref

\* a slice is a list of its element's reference; a Go slice may itself be nil
ListOf(ref) == <<"[">> \o ref \o <<"]">>

\* the name a reference contributes to the name of a pair type
RECURSIVE NamePart(_)
NamePart(ref) ==
    IF IsList(ref) THEN NamePart(SubSeq(ref, 2, Len(ref) - 1))
    ELSE ref[1]

PairNameNoPrefix(key, value, forInput) ==
    NamePart(key) \o NamePart(value)
        \o (IF IsList(value) THEN "List" ELSE "") \o "Pair"
        \o (IF forInput THEN "Input" ELSE "")

\* <Key><Nullable, if the value is nullable><Value><List, if the value is a
\* list>Pair, with the suffix Input in input position; key and value are the
\* references in output position
PairName(key, value, forInput) ==
    NamePart(key) \o (IF IsNonNull(value) THEN "" ELSE "Nullable")
        \o NamePart(value) \o (IF IsList(value) THEN "List" ELSE "") \o "Pair"
        \o (IF forInput THEN "Input" ELSE "")

RECURSIVE convertType(_, _)
convertType(ts, forInput) ==
    IF IsPointerType(ts) THEN Nullable(convertType(Tail(ts), forInput))
    ELSE IF IsSliceType(ts) THEN ListOf(convertType(Tail(ts), forInput))
    ELSE IF IsMapType(ts)
         THEN << "[", PairName(convertType(MapKey(ts), FALSE),
                               convertType(MapValue(ts), FALSE), forInput),
                 "!", "]" >>
    ELSE IF ts[1] \in ScalarTypes THEN << ScalarName(ts[1]), "!" >>
    ELSE << ObjectName(ts[1], forInput), "!" >>

\* the text of a GraphQL type
RECURSIVE Render(_)
Render(ref) == IF ref = <<>> THEN "" ELSE Head(ref) \o Render(Tail(ref))

\* the type definitions a conversion needs: the pair type of every map, the
\* definition of every struct and of its fields' types, every custom scalar
RECURSIVE typeDefsOf(_, _)
typeDefsOf(ts, forInput) ==
    IF IsPointerType(ts) \/ IsSliceType(ts) THEN typeDefsOf(Tail(ts), forInput)
    ELSE IF IsMapType(ts)
         THEN { [Name      |-> convertType(ts, forInput)[2],
                 Fields    |-> << [Name |-> "key",
                                   Type |-> Render(convertType(MapKey(ts), forInput))],
                                  [Name |-> "value",
                                   Type |-> Render(convertType(MapValue(ts), forInput))] >>,
                 IsMapType |-> TRUE,
                 forInput  |-> forInput] }
              \cup typeDefsOf(MapKey(ts), forInput)
              \cup typeDefsOf(MapValue(ts), forInput)
    ELSE IF ts[1] \in ScalarTypes
         THEN IF ScalarName(ts[1]) \in CustomScalars
              THEN { [Name |-> ScalarName(ts[1]), Fields |-> <<>>,
                      IsMapType |-> FALSE, forInput |-> FALSE] }
              ELSE {}
    ELSE LET fields == TypeCatalog(InputVariant(ts[1], forInput)) IN
         { [Name      |-> ObjectName(ts[1], forInput),
            Fields    |-> [i \in 1..Len(fields) |->
                             [Name |-> fields[i].Name,
                              Type |-> Render(convertType(fields[i].Type, forInput))]],
            IsMapType |-> FALSE,
            forInput  |-> forInput] }
         \cup UNION { typeDefsOf(fields[i].Type, forInput) : i \in 1..Len(fields) }

\* a definition is registered once under its name and reused afterwards
newType(defs, def) ==
    IF def.Name \in DOMAIN defs THEN defs ELSE Put(defs, def.Name, def)

RECURSIVE addTypes(_, _)
addTypes(defs, new) ==
    IF new = {} THEN defs
    ELSE LET def == CHOOSE d \in new : TRUE
         IN  addTypes(newType(defs, def), new \ {def})

\* wrappers of pointers and slices, up to MaxWrap deep
RECURSIVE Wraps(_)
Wraps(n) ==
    IF n = 0 THEN {<<>>}
    ELSE Wraps(n - 1)
           \cup {<<w>> \o ws : w \in {"*", "[]"},
                               ws \in {x \in Wraps(n - 1) : Len(x) = n - 1}}

MapTypes ==
    { <<"map", "string", "string">>,
      <<"map", "string", "*", "string">>,
      <<"map", "int32", "string">>,
      <<"map", "string", "map", "string", "float32">>,
      <<"map", "string", "float32">>,
      <<"map", "string", "testdata.Person">> }

SourceTypes ==
    { ws \o <<b>> : ws \in Wraps(MaxWrap),
                    b \in {"int32", "string", "testdata.Person"} }
      \cup { <<b>> : b \in {"time.Time", "int64", "testdata.Obj1",
                            "testdata.Obj2", "testdata.Obj2Input",
                            "testdata.Obj3", "testdata.Obj4Input"} }
      \cup MapTypes

\* convertType(sourceType, lti, typeDefs, false, forInput)
ConvertType(ts, forInput) ==
    /\ Len(converted) < MaxConversions
    /\ converted' = Append(converted,
                           [sourceType |-> ts, forInput |-> forInput,
                            graphQLType |-> convertType(ts, forInput)])
    /\ typeDefs' = addTypes(typeDefs, typeDefsOf(ts, forInput))
    /\ UNCHANGED << Plugins, loadOrder, gqlSchema, RegistrationRequest,
                    RegistrationCompleted, FunctionsMap, ctxDone, monitorCalls,
                    started, pc, funcSchemas, todo, before, ops, delta, lookup,
                    FnExports, embedders, result, previous >>

\* a new generation pass starts with no type definitions
NewTypeDefs ==
    /\ converted # <<>>
    /\ converted' = <<>>
    /\ typeDefs' = <<>>
    /\ UNCHANGED << Plugins, loadOrder, gqlSchema, RegistrationRequest,
                    RegistrationCompleted, FunctionsMap, ctxDone, monitorCalls,
                    started, pc, funcSchemas, todo, before, ops, delta, lookup,
                    FnExports, embedders, result, previous >>

NextConvert ==
    \/ \E ts \in SourceTypes, forInput \in BOOLEAN : ConvertType(ts, forInput)
    \/ NewTypeDefs

SpecConvert == Init /\ [][NextConvert]_vars

----------------------------------------------------------------------------
(* graphql/schemagen: generation of the schema of a plugin *)

MaxFunctions == 3
MaxRotation == 2

\* md.FnExports of the test metadata, and one function whose parameter is a
\* map with a struct as key
Parameters(fn) ==
    CASE fn = "add" ->
           << [Name |-> "a", Type |-> <<"int32">>],
              [Name |-> "b", Type |-> <<"int32">>] >>
      [] fn = "sayHello" -> << [Name |-> "name", Type |-> <<"string">>] >>
      [] fn = "transform" ->
           << [Name |-> "items", Type |-> <<"map", "string", "string">>] >>
      [] fn = "addPerson" ->
           << [Name |-> "person", Type |-> <<"testdata.Person">>] >>
      [] fn = "myEmbedder" -> << [Name |-> "text", Type |-> <<"string">>] >>
      [] fn = "testObj1" -> << [Name |-> "obj", Type |-> <<"testdata.Obj1">>] >>
      [] fn = "countByPerson" ->
           << [Name |-> "people", Type |-> <<"map", "testdata.Person", "int32">>] >>
      [] OTHER -> <<>>

\* <<>>: the function has no result
Result(fn) ==
    CASE fn = "add" -> <<"int32">>
      [] fn = "sayHello" -> <<"string">>
      [] fn = "currentTime" -> <<"time.Time">>
      [] fn = "transform" -> <<"map", "string", "string">>
      [] fn = "getPerson" -> <<"testdata.Person">>
      [] fn = "myEmbedder" -> <<"[]", "float64">>
      [] fn = "testObj1" -> <<"testdata.Obj1">>
      [] fn = "countByPerson" -> <<"int32">>
      [] OTHER -> <<>>

Functions ==
    {"add", "sayHello", "currentTime", "transform", "getPerson", "addPerson",
     "myEmbedder", "testObj1", "countByPerson"}

\* the embedders the manifest's collections may name
Manifests == { {}, {"myEmbedder"} }

\* every name of the model, in alphabetical order
SortedNames ==
    << "Address", "AddressInput", "Coordinates", "CoordinatesInput", "Obj1",
       "Obj1Input", "Person", "PersonInput", "StringStringPair",
       "StringStringPairInput", "Timestamp", "Void",
       "add", "addPerson", "countByPerson", "currentTime", "getPerson",
       "myEmbedder", "sayHello", "testObj1", "transform" >>

Rank(name) == CHOOSE i \in 1..Len(SortedNames) : SortedNames[i] = name
Less(a, b) == Rank(a) < Rank(b)

NoSort(seq) == seq

RECURSIVE Insert(_, _)
Insert(sorted, x) ==
    IF sorted = <<>> THEN <<x>>
    ELSE IF Less(x.Name, Head(sorted).Name) THEN <<x>> \o sorted
    ELSE <<Head(sorted)>> \o Insert(Tail(sorted), x)

\* sort by name
RECURSIVE Sort(_)
Sort(seq) == IF seq = <<>> THEN <<>> ELSE Insert(Sort(Tail(seq)), Head(seq))

RECURSIVE SetToSeq(_)
SetToSeq(set) ==
    IF set = {} THEN <<>>
    ELSE LET x == CHOOSE y \in set : TRUE IN <<x>> \o SetToSeq(set \ {x})

\* the definitions of a pool in the order an iteration yields them: the
\* order is unspecified, k selects one
Iterate(defs, k) ==
    LET seq == SetToSeq({ defs[n] : n \in DOMAIN defs })
        len == Len(seq)
    IN  [i \in 1..len |-> seq[((i + k - 1) % len) + 1]]

NeverExcluded(fn, names) == FALSE

\* the exclusion predicate: the function is an embedder of a collection
Excluded(fn, names) == fn \in names

\* every parameter type and the result type can be converted
Converts(fn) ==
    /\ \A i \in 1..Len(Parameters(fn)) : Supported(Parameters(fn)[i].Type)
    /\ Result(fn) = <<>> \/ Supported(Result(fn))

\* the functions up to the first one that has a conversion error
RECURSIVE UntilFirstError(_)
UntilFirstError(fns) ==
    IF fns = <<>> \/ ~Converts(Head(fns)) THEN <<>>
    ELSE <<Head(fns)>> \o UntilFirstError(Tail(fns))

\* the functions without conversion error
Convertible(fns) == SelectSeq(fns, Converts)

RECURSIVE JoinWith(_, _)
JoinWith(texts, sep) ==
    IF texts = <<>> THEN ""
    ELSE IF Len(texts) = 1 THEN texts[1]
    ELSE texts[1] \o sep \o JoinWith(Tail(texts), sep)

\* a field of the Query type: parameters in declared order, then the result
QueryField(fn) ==
    LET ps    == Parameters(fn)
        texts == [i \in 1..Len(ps) |->
                    ps[i].Name \o ": " \o Render(convertType(ps[i].Type, TRUE))]
    IN  [Name |-> fn,
         Text |-> fn \o (IF ps = <<>> THEN ""
                         ELSE "(" \o JoinWith(texts, ", ") \o ")")
                     \o ": "
                     \o (IF Result(fn) = <<>> THEN "Void"
                         ELSE Render(convertType(Result(fn), FALSE)))]

VoidType ==
    [Name |-> "Void", Fields |-> <<>>, IsMapType |-> FALSE, forInput |-> FALSE]

\* the definitions the functions need: parameters in input position, results
\* in output position, and Void for a function without result
TypesOfFunctions(fns) ==
    UNION { UNION { typeDefsOf(Parameters(fns[i])[j].Type, TRUE) :
                      j \in 1..Len(Parameters(fns[i])) }
              \cup (IF Result(fns[i]) = <<>> THEN {VoidType}
                    ELSE typeDefsOf(Result(fns[i]), FALSE)) :
            i \in 1..Len(fns) }

IsScalar(def) == def.Name \in CustomScalars \cup {"Void"}

\* GetGraphQLSchema: the document's blocks and the collected errors
Generate(fns, names, k) ==
    LET retained == SelectSeq(fns, LAMBDA fn : ~Excluded(fn, names))
        good     == Convertible(retained)
        defs     == Iterate(addTypes(<<>>, TypesOfFunctions(good)), k)
    IN  [generated |-> TRUE,
         Query     |-> Sort([i \in 1..Len(good) |-> QueryField(good[i])]),
         scalars   |-> Sort(SelectSeq(defs, IsScalar)),
         inputs    |-> Sort(SelectSeq(defs, LAMBDA d : ~IsScalar(d) /\ d.forInput)),
         types     |-> Sort(SelectSeq(defs, LAMBDA d : ~IsScalar(d) /\ ~d.forInput)),
         errors    |-> { [function |-> retained[i]] :
                           i \in { j \in 1..Len(retained) : ~Converts(retained[j]) } }]

\* sequences of distinct functions, up to MaxFunctions long
RECURSIVE ExportLists(_)
ExportLists(n) ==
    IF n = 0 THEN {<<>>}
    ELSE LET shorter == ExportLists(n - 1) IN
         shorter \cup
           UNION { { Append(fns, fn) :
                       fn \in Functions \ { fns[i] : i \in 1..Len(fns) } } :
                   fns \in { x \in shorter : Len(x) = n - 1 } }

\* a plugin's metadata and the manifest are loaded, once
LoadMetadata(fns, names) ==
    /\ FnExports = <<>>
    /\ fns # <<>>
    /\ FnExports' = fns
    /\ embedders' = names
    /\ typeDefs' = <<>>
    /\ result' = NoResult
    /\ previous' = NoResult
    /\ UNCHANGED << Plugins, loadOrder, gqlSchema, RegistrationRequest,
                    RegistrationCompleted, FunctionsMap, ctxDone, monitorCalls,
                    started, pc, funcSchemas, todo, before, ops, delta, lookup,
                    converted >>

GetGraphQLSchema(k) ==
    /\ FnExports # <<>>
    /\ previous' = result
    /\ result' = Generate(FnExports, embedders, k)
    /\ typeDefs' = addTypes(<<>>, TypesOfFunctions(
                       Convertible(SelectSeq(FnExports,
                           LAMBDA fn : ~Excluded(fn, embedders)))))
    /\ UNCHANGED << Plugins, loadOrder, gqlSchema, RegistrationRequest,
                    RegistrationCompleted, FunctionsMap, ctxDone, monitorCalls,
                    started, pc, funcSchemas, todo, before, ops, delta, lookup,
                    converted, FnExports, embedders >>

NextGenerate ==
    \/ \E fns \in ExportLists(MaxFunctions), names \in Manifests :
          LoadMetadata(fns, names)
    \/ \E k \in 0..MaxRotation : GetGraphQLSchema(k)

SpecGenerate == Init /\ [][NextGenerate]_vars

----------------------------------------------------------------------------
(* What the claims speak of *)

\* registerFunctions has finished its upserts and its sweep
PassDone(w) == pc[w] \in {"signal", "sent", "dropped"}

\* a goroutine is inside registerFunctions
Executing(w) == pc[w] \in {"upsert", "sweep", "signal", "sent", "dropped"}

\* the names that equal name when case is ignored
Variants(name) ==
    IF name \in {SayHello, sayHello, sayhello}
    THEN {SayHello, sayHello, sayhello}
    ELSE {name}

\* the function schemas of the schema now in force
CurrentSchemas ==
    {gqlSchema.fns[i] : i \in 1..Len(gqlSchema.fns)}

\* the loaded plugins that export a function named as scma is, ignoring case
Matching(scma) ==
    {p \in DOMAIN Plugins :
        \E fn \in Plugins[p] : fn[1] \in Variants(scma.FunctionName)}

\* the plugin of set that the host loaded last
LastLoaded(set) ==
    loadOrder[CHOOSE i \in 1..Len(loadOrder) :
                /\ loadOrder[i] \in set
                /\ \A j \in (i + 1)..Len(loadOrder) : loadOrder[j] \notin set]

EntriesOf(map, p) == {r \in DOMAIN map : map[r].PluginName = p}

----------------------------------------------------------------------------
\* C1: after every pass that completes without error, every entry of
\* FunctionsMap names a plugin that is loaded and a function whose name is,
\* ignoring case, the name of a function of the current schema.
C1_RegistryValid ==
    \A w \in Workers :
        PassDone(w) =>
            \A r \in DOMAIN FunctionsMap :
                /\ FunctionsMap[r].PluginName \in DOMAIN Plugins
                /\ \E scma \in CurrentSchemas :
                       FunctionsMap[r].Schema.FunctionName
                           \in Variants(scma.FunctionName)

\* a pass has just removed an entry and kept another
C1_Witness ==
    \E w \in Workers :
        /\ PassDone(w)
        /\ FunctionsMap # EmptyMap
        /\ \E r \in DOMAIN before[w] : r \notin DOMAIN FunctionsMap

----------------------------------------------------------------------------
\* C2: when the only change since the last completed pass is that plugin P was
\* unloaded, the next pass leaves no entry of P and leaves every entry that
\* belonged to another plugin as it was.
C2_UnloadFrame ==
    \A w \in Workers :
        (PassDone(w) /\ delta.kind = "unload") =>
            /\ EntriesOf(FunctionsMap, delta.plugin) = {}
            /\ \A r \in DOMAIN before[w] :
                   before[w][r].PluginName # delta.plugin =>
                       /\ r \in DOMAIN FunctionsMap
                       /\ FunctionsMap[r] = before[w][r]

----------------------------------------------------------------------------
\* C3: after a completed pass no entry maps a resolver to a loaded plugin
\* whose current build does not export the entry's function.
C3_NoEntryForDroppedExport ==
    \A w \in Workers :
        PassDone(w) =>
            \A r \in DOMAIN FunctionsMap :
                FunctionsMap[r].PluginName \in DOMAIN Plugins =>
                    FunctionsMap[r].PluginName \in Matching(FunctionsMap[r].Schema)

----------------------------------------------------------------------------
\* C4: no lookup of the dispatch layer runs against a map that a pass in
\* flight has written to and not yet swept.
C4_NoPartialRead == lookup.partial = FALSE

----------------------------------------------------------------------------
\* C5: when two or more loaded plugins export a function matching the same
\* schema function, the completed pass leaves the resolver's entry naming the
\* plugin that was loaded last of them.
C5_LastLoadedWins ==
    \A w \in Workers :
        PassDone(w) =>
            \A scma \in CurrentSchemas :
                Cardinality(Matching(scma)) >= 2 =>
                    /\ scma.Resolver \in DOMAIN FunctionsMap
                    /\ FunctionsMap[scma.Resolver].PluginName
                           = LastLoaded(Matching(scma))

----------------------------------------------------------------------------
\* C6: RegistrationCompleted never holds more than one signal, the send at
\* the end of a pass is always possible, and it leaves exactly one signal
\* buffered whether or not one was already pending.
C6_SingleSlot ==
    /\ [](RegistrationCompleted <= 1)
    /\ [](\A w \in Workers : pc[w] = "signal" => ENABLED Signal(w))
    /\ [][\A w \in Workers :
            (pc[w] = "signal" /\ pc'[w] # "signal") =>
                /\ pc'[w] \in {"sent", "dropped"}
                /\ RegistrationCompleted' = 1]_vars

\* a second pass found the signal of the first still pending and goes on
C6_Witness ==
    \E w \in Workers : pc[w] = "dropped" /\ RegistrationCompleted = 1

----------------------------------------------------------------------------
\* C7 as stated: at most one pass is executing at any time, whatever the
\* sequence of MonitorRegistration calls and triggers.
C7_NeverTwoPasses ==
    Cardinality({w \in Workers : Executing(w)}) <= 1

\* C7 as amended: while MonitorRegistration has been called at most once, at
\* most one pass is executing at any time.
C7_OnePassPerMonitor ==
    monitorCalls <= 1 => Cardinality({w \in Workers : Executing(w)}) <= 1

\* one call of MonitorRegistration, a pass in flight, a trigger waiting
C7_Witness ==
    /\ monitorCalls = 1
    /\ RegistrationRequest > 0
    /\ \E w \in Workers : Executing(w)

----------------------------------------------------------------------------
\* C8: after a completed pass, a schema function has an entry under its
\* resolver, for one of the plugins concerned, whenever a loaded plugin exports
\* its name in any casing (SayHello, sayHello, sayhello), and the pass creates
\* or changes no entry under that resolver when no loaded plugin does.
C8_CaseInsensitive ==
    \A w \in Workers :
        PassDone(w) =>
            \A scma \in CurrentSchemas :
                IF Matching(scma) # {}
                THEN /\ scma.Resolver \in DOMAIN FunctionsMap
                     /\ FunctionsMap[scma.Resolver].Schema = scma
                     /\ FunctionsMap[scma.Resolver].PluginName \in Matching(scma)
                ELSE scma.Resolver \in DOMAIN FunctionsMap =>
                        /\ scma.Resolver \in DOMAIN before[w]
                        /\ FunctionsMap[scma.Resolver] = before[w][scma.Resolver]

\* sayHello is registered for a plugin that exports it under another casing
C8_Witness ==
    \E w \in Workers, p \in DOMAIN Plugins :
        /\ PassDone(w)
        /\ fSay \in CurrentSchemas
        /\ Plugins[p] \in { {<<SayHello>>}, {<<sayhello>>} }
        /\ "sayHello" \notin DOMAIN before[w]
        /\ "sayHello" \in DOMAIN FunctionsMap
        /\ FunctionsMap["sayHello"].PluginName = p

----------------------------------------------------------------------------
\* C9 as stated: after a pass that could not obtain the schema, the map holds
\* no entry for a loaded plugin.
C9_NoEntryAfterFailure ==
    \A w \in Workers :
        pc[w] = "failed" =>
            \A r \in DOMAIN FunctionsMap :
                FunctionsMap[r].PluginName \notin DOMAIN Plugins

\* C9 as amended: a pass that could not obtain the schema adds no entry and
\* removes none: the map is as it was when the pass was called.
C9_FailureLeavesMap ==
    \A w \in Workers : pc[w] = "failed" => FunctionsMap = before[w]

\* a pass failed while the map held an entry of a loaded plugin
C9_Witness ==
    \E w \in Workers :
        /\ pc[w] = "failed"
        /\ \E r \in DOMAIN FunctionsMap :
               FunctionsMap[r].PluginName \in DOMAIN Plugins

----------------------------------------------------------------------------
\* the step in which the call of registerFunctions for a trigger ends
PassEnds(w) ==
    \/ pc[w] = "signal" /\ pc'[w] # "signal"
    \/ pc[w] = "select" /\ pc'[w] = "failed"

\* C10 as stated: every consumed trigger ends with a completion signal in the
\* channel.
C10_EveryTriggerSignals ==
    [][\A w \in Workers : PassEnds(w) => RegistrationCompleted' = 1]_vars

\* C10 as amended: a pass that obtained the schema runs on to its send and
\* leaves a signal in the channel; a signal is sent only by a pass whose
\* upserts and sweep are finished; a pass that could not obtain the schema
\* ends without sending.
C10_PassThenSignal ==
    /\ [][\A w \in Workers :
            (pc[w] = "signal" /\ pc'[w] # "signal") =>
                RegistrationCompleted' = 1]_vars
    /\ [][RegistrationCompleted' > RegistrationCompleted =>
            \E w \in Workers :
                /\ pc[w] = "signal"
                /\ todo[w] = {}
                /\ FunctionsMap = Sweep(FunctionsMap, funcSchemas[w], Plugins)
                /\ FunctionsMap' = FunctionsMap]_vars
    /\ [][\A w \in Workers :
            (pc[w] = "select" /\ pc'[w] = "failed") =>
                RegistrationCompleted' = RegistrationCompleted]_vars
    /\ \A w \in Workers :
           (pc[w] \in {"upsert", "sweep", "signal"})
               ~> (pc[w] \in {"sent", "dropped"})

\* a pass that wrote an entry has just sent its signal
C10_Witness ==
    \E w \in Workers :
        /\ pc[w] = "sent"
        /\ RegistrationCompleted = 1
        /\ FunctionsMap # before[w]

\* C11 as stated: once the context is canceled the worker exits in the end
\* and starts no further pass, and a pass in flight is not aborted.
C11_NoWorkAfterCancel ==
    [][\A w \in Workers :
          ctxDone => ~(pc[w] = "select" /\ pc'[w] \in {"failed", "upsert", "sweep"})]_vars

\* C11 amended: once the context is canceled every started worker exits in
\* the end; it exits only from its select, never from inside a pass, so a
\* pass that runs while the context is canceled reaches its signal; a worker
\* that exited stays exited.  A trigger that is pending when the worker comes
\* back to its select may still start one more pass.
C11_ExitsAfterPass ==
    /\ ctxDone ~> (\A w \in started : pc[w] = "exited")
    /\ \A w \in Workers :
          (ctxDone /\ pc[w] \in {"upsert", "sweep", "signal"})
              ~> (pc[w] \in {"sent", "dropped"})
    /\ [][\A w \in Workers :
            /\ pc'[w] = "exited" => pc[w] \in {"select", "exited"}
            /\ pc[w] = "exited" => pc'[w] = "exited"]_vars

C11_Witness ==
    \E w \in Workers :
        ctxDone /\ pc[w] = "sent" /\ FunctionsMap # before[w]

NoConflict ==
    \A scma \in CurrentSchemas : Cardinality(Matching(scma)) <= 1

\* C18: the upsert step writes an entry only when the resolver has no entry
\* or its entry differs from the new one, so every write changes the map; a
\* pass over an unchanged plugin set and schema in which no two plugins
\* export the same function performs no write and no delete.
C18_WritesOnlyDifferences ==
    /\ [][\A w \in Workers :
            ops'[w].writes > ops[w].writes => FunctionsMap' # FunctionsMap]_vars
    /\ [](\A w \in Workers :
            (PassDone(w) /\ delta = NoChange /\ NoConflict)
                => (ops[w] = NoOps /\ FunctionsMap = before[w]))

C18_Witness ==
    \E w \in Workers :
        /\ PassDone(w) /\ delta = NoChange /\ NoConflict
        /\ Cardinality(DOMAIN Plugins) = 2
        /\ Cardinality(DOMAIN FunctionsMap) = 2
        /\ ops[w] = NoOps

\* C19: the Registry changes only inside a pass that obtained the function
\* schema; a pass that cannot obtain it returns the error, and from its
\* start to the worker's return to the select no Registry entry and no slot
\* of the completion channel is written by it.
C19_OnlySuccessfulPassWrites ==
    [][/\ FunctionsMap' # FunctionsMap
            => \E w \in Workers : pc[w] \in {"upsert", "sweep"}
       /\ \A w \in Workers :
            (~gqlSchema.valid /\ pc[w] = "select"
                              /\ pc'[w] \notin {"select", "exited"})
                => /\ pc'[w] = "failed"
                   /\ FunctionsMap' = FunctionsMap
                   /\ RegistrationCompleted' = RegistrationCompleted
       /\ \A w \in Workers :
            (pc[w] = "failed" /\ pc'[w] # "failed")
                => /\ pc'[w] = "select"
                   /\ FunctionsMap' = FunctionsMap
                   /\ RegistrationCompleted' = RegistrationCompleted]_vars

C19_Witness ==
    \E w \in Workers :
        /\ pc[w] = "failed"
        /\ Cardinality(DOMAIN FunctionsMap) = 2
        /\ RegistrationCompleted = 0

\* C20: a second pass with the same loaded plugins and the same schema leaves
\* the Registry equal to its state after the first pass, also when two
\* loaded plugins export the same function.
C20_Idempotent ==
    \A w \in Workers :
        (PassDone(w) /\ delta = NoChange) => FunctionsMap = before[w]

----------------------------------------------------------------------------
(* Claims about the type conversion *)

\* pointer and slice cases of Test_ConvertType_Go and of the testPointers
\* function of Test_GetGraphQLSchema_Go, with the GraphQL types they expect
PointerAndSliceCases ==
    { [sourceType |-> <<"[]", "string">>,       forInput |-> FALSE, expectedGraphQLType |-> "[String!]"],
      [sourceType |-> <<"[]", "string">>,       forInput |-> TRUE,  expectedGraphQLType |-> "[String!]"],
      [sourceType |-> <<"[]", "[]", "string">>, forInput |-> FALSE, expectedGraphQLType |-> "[[String!]]"],
      [sourceType |-> <<"[]", "[]", "string">>, forInput |-> TRUE,  expectedGraphQLType |-> "[[String!]]"],
      [sourceType |-> <<"[]", "*", "string">>,  forInput |-> FALSE, expectedGraphQLType |-> "[String]"],
      [sourceType |-> <<"[]", "*", "string">>,  forInput |-> TRUE,  expectedGraphQLType |-> "[String]"],
      [sourceType |-> <<"*", "string">>,        forInput |-> FALSE, expectedGraphQLType |-> "String"],
      [sourceType |-> <<"*", "string">>,        forInput |-> TRUE,  expectedGraphQLType |-> "String"],
      [sourceType |-> <<"*", "int32">>,         forInput |-> TRUE,  expectedGraphQLType |-> "Int"],
      [sourceType |-> <<"[]", "*", "int32">>,   forInput |-> TRUE,  expectedGraphQLType |-> "[Int]"],
      [sourceType |-> <<"*", "[]", "int32">>,   forInput |-> TRUE,  expectedGraphQLType |-> "[Int!]"],
      [sourceType |-> <<"[]", "*", "testdata.Person">>, forInput |-> TRUE,
       expectedGraphQLType |-> "[PersonInput]"],
      [sourceType |-> <<"*", "[]", "testdata.Person">>, forInput |-> TRUE,
       expectedGraphQLType |-> "[PersonInput!]"],
      [sourceType |-> <<"*", "testdata.Person">>, forInput |-> FALSE,
       expectedGraphQLType |-> "Person"] }

\* pointers and slices over a name, and no map
IsWrappedName(ts) ==
    \A i \in 1..(Len(ts) - 1) : ts[i] \in {"*", "[]"}

\* level by level: every slice is one list around its element, the name is
\* non-null unless a pointer wraps it directly, and a list (a Go slice, with
\* or without a pointer around it) is nullable
PerLevel(ts, forInput) ==
    LET n    == Len(SelectSeq(ts, LAMBDA tok : tok = "[]"))
        base == ts[Len(ts)]
        name == IF base \in ScalarTypes THEN ScalarName(base)
                ELSE ObjectName(base, forInput)
        bang == IF Len(ts) > 1 /\ ts[Len(ts) - 1] = "*" THEN <<>> ELSE <<"!">>
    IN  [i \in 1..n |-> "["] \o <<name>> \o bang \o [i \in 1..n |-> "]"]

\* C12: conversion propagates nullability per level, for any nesting of
\* pointers and slices over a base type, in input and in output position: a
\* pointer makes only the reference it wraps nullable, a slice keeps its
\* element's nullability; the conversions the tests list give the GraphQL
\* types the tests expect.
C12_NullabilityPerLevel ==
    \A i \in 1..Len(converted) :
        LET c == converted[i] IN
        /\ IsWrappedName(c.sourceType)
              => c.graphQLType = PerLevel(c.sourceType, c.forInput)
        /\ \A tc \in PointerAndSliceCases :
              (tc.sourceType = c.sourceType /\ tc.forInput = c.forInput)
                  => Render(c.graphQLType) = tc.expectedGraphQLType

C12_Witness ==
    /\ Len(converted) = 2
    /\ converted[1].sourceType = <<"*", "[]", "int32">>
    /\ Render(converted[1].graphQLType) = "[Int!]"
    /\ converted[2].sourceType = <<"[]", "*", "testdata.Person">>
    /\ converted[2].forInput
    /\ Render(converted[2].graphQLType) = "[PersonInput]"

\* the map types inside a type: the type itself and the maps it nests
MapsIn(ts) ==
    { SubSeq(ts, i, Len(ts)) : i \in {j \in 1..Len(ts) : ts[j] = "map"} }

\* the maps converted so far in one position
MapsConverted(forInput) ==
    UNION { MapsIn(converted[i].sourceType) :
              i \in {j \in 1..Len(converted) : converted[j].forInput = forInput} }

PairTypes(forInput) ==
    { typeDefs[n] : n \in {x \in DOMAIN typeDefs :
                             typeDefs[x].IsMapType /\ typeDefs[x].forInput = forInput} }

RECURSIVE StructsIn(_, _)
StructsIn(ts, forInput) ==
    IF IsPointerType(ts) \/ IsSliceType(ts) THEN StructsIn(Tail(ts), forInput)
    ELSE IF IsMapType(ts) THEN StructsIn(MapValue(ts), forInput)
    ELSE IF ts[1] \in ScalarTypes THEN {}
    ELSE LET fields == TypeCatalog(InputVariant(ts[1], forInput)) IN
         {ts[1]} \cup UNION { StructsIn(fields[i].Type, forInput) :
                                i \in 1..Len(fields) }

StructsUsed(forInput) ==
    UNION { StructsIn(converted[i].sourceType, forInput) :
              i \in {j \in 1..Len(converted) : converted[j].forInput = forInput} }

\* the definitions of structs in the pool
ObjectTypes ==
    { n \in DOMAIN typeDefs : ~typeDefs[n].IsMapType /\ n \notin CustomScalars }

\* the definitions Test_GetGraphQLSchema_Go expects for testObj1..testObj4
ObjCases ==
    { [sourceType |-> "testdata.Obj1",      forInput |-> TRUE,  name |-> "Obj1Input"],
      [sourceType |-> "testdata.Obj1",      forInput |-> FALSE, name |-> "Obj1"],
      [sourceType |-> "testdata.Obj2Input", forInput |-> TRUE,  name |-> "Obj2Input"],
      [sourceType |-> "testdata.Obj2",      forInput |-> FALSE, name |-> "Obj2"],
      [sourceType |-> "testdata.Obj3",      forInput |-> TRUE,  name |-> "Obj3Input"],
      [sourceType |-> "testdata.Obj4Input", forInput |-> TRUE,  name |-> "Obj4Input"] }

\* C14: a struct used in input position has a definition named with the
\* suffix Input, an entry of its own beside the output definition of the
\* same struct even when the fields are the same; a struct whose name is an
\* explicit input variant keeps its name; and the pool holds no definition
\* for a position in which the struct is not used.
C14_InputDefinitions ==
    /\ \A n \in StructsUsed(TRUE) :
         LET name == Join(NameWords(n)) IN
         IF NameWords(n)[Len(NameWords(n))] = "Input"
         THEN name \in DOMAIN typeDefs /\ (name \o "Input") \notin DOMAIN typeDefs
         ELSE /\ (name \o "Input") \in DOMAIN typeDefs
              /\ n \in StructsUsed(FALSE)
                   => /\ name \in DOMAIN typeDefs
                      /\ typeDefs[name].Name # typeDefs[name \o "Input"].Name
    /\ \A n \in StructsUsed(FALSE) : Join(NameWords(n)) \in DOMAIN typeDefs
    /\ ObjectTypes
         = { Join(NameWords(n)) : n \in StructsUsed(FALSE) }
             \cup { Join(NameWords(n)) \o "Input" :
                      n \in { x \in StructsUsed(TRUE) :
                                NameWords(x)[Len(NameWords(x))] # "Input" } }
             \cup { Join(NameWords(n)) :
                      n \in { x \in StructsUsed(TRUE) :
                                NameWords(x)[Len(NameWords(x))] = "Input" } }
    /\ \A i \in 1..Len(converted) : \A tc \in ObjCases :
         (converted[i].sourceType = <<tc.sourceType>>
            /\ converted[i].forInput = tc.forInput)
             => /\ converted[i].graphQLType = <<tc.name, "!">>
                /\ tc.name \in DOMAIN typeDefs

\* Obj1 is used in both positions, with the same fields in both
C14_Witness ==
    /\ Len(converted) = 2
    /\ converted[1].sourceType = <<"testdata.Obj1">> /\ converted[1].forInput
    /\ converted[2].sourceType = <<"testdata.Obj1">> /\ ~converted[2].forInput
    /\ DOMAIN typeDefs = {"Obj1Input", "Obj1"}
    /\ typeDefs["Obj1"].Fields = typeDefs["Obj1Input"].Fields

----------------------------------------------------------------------------
(* Claims about the schema generation *)

QueryNames(doc) == { doc.Query[i].Name : i \in 1..Len(doc.Query) }

\* C15: a function the manifest names as an embedder of a collection is no
\* field of the Query type, wherever it stands among the exports, and every
\* other export whose types convert is one.
C15_EmbedderExcluded ==
    result.generated =>
        /\ QueryNames(result) \cap embedders = {}
        /\ \A j \in 1..Len(FnExports) :
              (FnExports[j] \notin embedders /\ Converts(FnExports[j]))
                  => FnExports[j] \in QueryNames(result)

C15_Witness ==
    /\ result.generated
    /\ embedders = {"myEmbedder"}
    /\ Len(FnExports) = 3 /\ FnExports[2] = "myEmbedder"
    /\ Len(result.Query) = 2

\* the names of a block are in strictly alphabetical order
Alphabetical(block) ==
    \A i \in 1..(Len(block) - 1) : Rank(block[i].Name) < Rank(block[i + 1].Name)

\* the fields of a struct's definition are the struct's, in declared order
DeclaredOrder(def) ==
    \A n \in StructTypes :
        ObjectName(n, def.forInput) = def.Name
            => LET fields == TypeCatalog(InputVariant(n, def.forInput)) IN
               [i \in 1..Len(def.Fields) |-> def.Fields[i].Name]
                   = [i \in 1..Len(fields) |-> fields[i].Name]

\* C16: generating again from the same metadata gives the same document,
\* whatever order the type definitions are iterated in: the Query fields,
\* the scalars, the input types and the output types are each in
\* alphabetical order of name, parameters and fields in declared order.
C16_Deterministic ==
    /\ (result.generated /\ previous.generated) => result = previous
    /\ result.generated =>
         /\ Alphabetical(result.Query)
         /\ Alphabetical(result.scalars)
         /\ Alphabetical(result.inputs)
         /\ Alphabetical(result.types)
         /\ \A i \in 1..Len(result.Query) :
              result.Query[i].Name = "add"
                  => result.Query[i].Text = "add(a: Int!, b: Int!): Int!"
         /\ \A i \in 1..Len(result.inputs) :
              ~result.inputs[i].IsMapType => DeclaredOrder(result.inputs[i])
         /\ \A i \in 1..Len(result.types) :
              ~result.types[i].IsMapType => DeclaredOrder(result.types[i])

C16_Witness ==
    /\ result.generated /\ previous.generated
    /\ FnExports = <<"transform", "addPerson", "add">>
    /\ Len(result.Query) = 3
    /\ Len(result.inputs) = 4

----------------------------------------------------------------------------
\* C21: after a pass that returned nil every key of the map is the resolver
\* of a function of the current schema; when the schema gives a function a
\* new resolver, the entry under the old resolver is swept.
C21_KeysAreCurrentResolvers ==
    \A w \in Workers :
        PassDone(w) =>
            \A r \in DOMAIN FunctionsMap :
                \E scma \in CurrentSchemas : scma.Resolver = r

----------------------------------------------------------------------------
\* C22: after a pass that returned nil, every function of the schema that a
\* loaded plugin exports under a name equal up to case has an entry under its
\* resolver, and the plugin of that entry is loaded and exports such a name;
\* the sweep removes no entry that the upserts of the same pass left under
\* such a resolver.
C22_CompleteAndAccurate ==
    /\ [](\A w \in Workers :
            PassDone(w) =>
                \A scma \in CurrentSchemas :
                    Matching(scma) # {} =>
                        /\ scma.Resolver \in DOMAIN FunctionsMap
                        /\ FunctionsMap[scma.Resolver].Schema = scma
                        /\ FunctionsMap[scma.Resolver].PluginName \in Matching(scma))
    /\ [][\A w \in Workers :
            (pc[w] = "sweep" /\ pc'[w] = "signal") =>
                \A scma \in CurrentSchemas :
                    Matching(scma) # {} =>
                        /\ scma.Resolver \in DOMAIN FunctionsMap
                        /\ scma.Resolver \in DOMAIN FunctionsMap'
                        /\ FunctionsMap'[scma.Resolver] = FunctionsMap[scma.Resolver]]_vars

\* two plugins, two functions of the schema, each exported by one of them,
\* and the pass wrote both entries
C22_Witness ==
    \E w \in Workers :
        /\ PassDone(w)
        /\ Cardinality(DOMAIN Plugins) = 2
        /\ Cardinality(CurrentSchemas) = 2
        /\ \A scma \in CurrentSchemas : Cardinality(Matching(scma)) = 1
        /\ ops[w].writes = 2
        /\ Cardinality(DOMAIN FunctionsMap) = 2

====
